---- MODULE Spec2Model ----
(***************************************************************************)
(* Model of the inventory page lab.py: the SQLite table "inventario", the  *)
(* functions that read and replace it, the column normaliser, the import   *)
(* pipeline and the handlers of the page that call them.                   *)
(*                                                                         *)
(* A cell of a DataFrame or of the table is a dynamically typed value:     *)
(* a text, a number or a missing value (NaN / None / NULL).  Numbers are   *)
(* counted in 1/Escala, so that Escala stands for 1.0 and 1 for the        *)
(* smallest fraction the model tells apart.                                *)
(***************************************************************************)
EXTENDS Integers, Sequences, FiniteSets, TLC

VARIABLES db, df, op, arg, ret, pre

vars == <<db, df, op, arg, ret, pre>>

-----------------------------------------------------------------------------
(* Bounds of the model *)

\* rows of a DataFrame passed to guardar_datos_en_db or of an uploaded file
MaxRows == 2

\* the "add product" form is submitted while the page shows fewer rows
MaxStore == 1

\* number of fractional steps per unit: the number n stands for n / Escala
Escala == 2

-----------------------------------------------------------------------------
(* Cells *)

Text(s) == [t |-> "str", s |-> s, n |-> 0]
Num(n) == [t |-> "num", s |-> "", n |-> n]
NaN == [t |-> "nan", s |-> "", n |-> 0]

\* pandas isnull() on one cell
isnull(c) == c.t = "nan"

\* pd.to_numeric(errors="coerce") on one cell: the texts of the model are
\* words, not numerals, so every text becomes NaN
to_numeric(c) == IF c.t = "num" THEN c ELSE NaN

fillna(c, v) == IF isnull(c) THEN Num(v) ELSE c

\* astype(int) on a number: truncation toward zero
astype_int(c) ==
    IF c.n >= 0 THEN Num(Escala * (c.n \div Escala))
    ELSE Num(-(Escala * ((-c.n) \div Escala)))

\* astype(float) keeps the number
astype_float(c) == c

-----------------------------------------------------------------------------
(* Column labels: a label is a string, kept as its sequence of characters, *)
(* or a number (a header cell that holds a number).                        *)

Str(chars) == [str |-> TRUE, chars |-> chars]
NumLabel == [str |-> FALSE, chars |-> <<>>]

MAYUSCULAS == <<"A","B","C","D","E","I","L","N","O","P","R","S","T","U","Í","Ó">>
MINUSCULAS == <<"a","b","c","d","e","i","l","n","o","p","r","s","t","u","í","ó">>

upper(c) ==
    IF \E i \in 1..Len(MINUSCULAS) : MINUSCULAS[i] = c
    THEN MAYUSCULAS[CHOOSE i \in 1..Len(MINUSCULAS) : MINUSCULAS[i] = c]
    ELSE c

lower(c) ==
    IF \E i \in 1..Len(MAYUSCULAS) : MAYUSCULAS[i] = c
    THEN MINUSCULAS[CHOOSE i \in 1..Len(MAYUSCULAS) : MAYUSCULAS[i] = c]
    ELSE c

RECURSIVE lstrip(_)
lstrip(s) == IF s # <<>> /\ Head(s) = " " THEN lstrip(Tail(s)) ELSE s

RECURSIVE rstrip(_)
rstrip(s) ==
    IF s # <<>> /\ s[Len(s)] = " " THEN rstrip(SubSeq(s, 1, Len(s) - 1)) ELSE s

\* str.strip()
strip(s) == rstrip(lstrip(s))

\* str.capitalize(): first character upper case, all the others lower case
capitalize(s) ==
    IF s = <<>> THEN s
    ELSE <<upper(s[1])>> \o [i \in 1..(Len(s) - 1) |-> lower(s[i + 1])]

cID == <<"I","D">>
cProducto == <<"P","r","o","d","u","c","t","o">>
cCategoria == <<"C","a","t","e","g","o","r","í","a">>
cCantidad == <<"C","a","n","t","i","d","a","d">>
cPrecio == <<"P","r","e","c","i","o">>
cUbicacion == <<"U","b","i","c","a","c","i","ó","n">>

COLUMNAS_REQUERIDAS ==
    <<Str(cID), Str(cProducto), Str(cCategoria), Str(cCantidad), Str(cPrecio),
      Str(cUbicacion)>>

\* the keys and values of mapeo_columnas
kCategoria == <<"C","a","t","e","g","o","r","i","a">>
kCant == <<"C","a","n","t">>
kPrecioUnitario == <<"P","r","e","c","i","o"," ","U","n","i","t","a","r","i","o">>
kLocacion == <<"L","o","c","a","c","i","o","n">>

mapeo_columnas ==
    << <<kCategoria, cCategoria>>, <<kCant, cCantidad>>,
       <<kPrecioUnitario, cPrecio>>, <<kLocacion, cUbicacion>> >>

\* DataFrame.rename(columns=mapeo_columnas) on one label
rename(col) ==
    IF col.str /\ \E i \in 1..Len(mapeo_columnas) : mapeo_columnas[i][1] = col.chars
    THEN Str(mapeo_columnas[CHOOSE i \in 1..Len(mapeo_columnas) :
                                mapeo_columnas[i][1] = col.chars][2])
    ELSE col

\* a DataFrame before schema completion: [columns, data], data[r][j] being
\* the cell of row r under columns[j].  A label that is no string has no
\* strip(): the exception is caught and the frame returned as it came.
estandarizar_columnas(frame) ==
    IF \A j \in 1..Len(frame.columns) : frame.columns[j].str
    THEN [frame EXCEPT !.columns =
            [j \in 1..Len(frame.columns) |->
                rename(Str(capitalize(strip(frame.columns[j].chars))))]]
    ELSE frame

\* a row of a frame that has the six required columns, and of the table
Fila(id, producto, categoria, cantidad, precio, ubicacion) ==
    [ID |-> id, Producto |-> producto, Categoria |-> categoria,
     Cantidad |-> cantidad, Precio |-> precio, Ubicacion |-> ubicacion]

HasColumn(frame, label) == \E j \in 1..Len(frame.columns) : frame.columns[j] = label

Column(frame, r, label, default) ==
    IF HasColumn(frame, label)
    THEN frame.data[r][CHOOSE j \in 1..Len(frame.columns) : frame.columns[j] = label]
    ELSE default

\* every required column the frame lacks is added with "" (text columns)
\* or 0 (Cantidad, Precio); then the six required columns are selected
completar_columnas(frame) ==
    [r \in 1..Len(frame.data) |->
        Fila(Column(frame, r, Str(cID), Text("")),
             Column(frame, r, Str(cProducto), Text("")),
             Column(frame, r, Str(cCategoria), Text("")),
             Column(frame, r, Str(cCantidad), Num(0)),
             Column(frame, r, Str(cPrecio), Num(0)),
             Column(frame, r, Str(cUbicacion), Text("")))]

-----------------------------------------------------------------------------
(* The table "inventario": its rows in rowid order *)

\* the product names of the model in the order of SQLite's BINARY collation
Collation == <<"", "Alfa", "Beta", "Widget">>

\* ORDER BY key of a cell: NULL sorts first, then the texts in collation order
SortKey(c) ==
    IF isnull(c) THEN 0 ELSE CHOOSE i \in 1..Len(Collation) : Collation[i] = c.s

\* the sorted rows with one more row put after every row whose key is not
\* greater than its own
InsertSorted(sorted, row) ==
    LET k == Cardinality({i \in 1..Len(sorted) :
                            SortKey(sorted[i].Producto) <= SortKey(row.Producto)})
    IN SubSeq(sorted, 1, k) \o <<row>> \o SubSeq(sorted, k + 1, Len(sorted))

\* the rows as they were inserted, in no order
sin_ORDER_BY(rows) == rows

RECURSIVE ORDER_BY_Producto(_)
ORDER_BY_Producto(rows) ==
    IF rows = <<>> THEN <<>>
    ELSE InsertSorted(ORDER_BY_Producto(SubSeq(rows, 1, Len(rows) - 1)), rows[Len(rows)])

\* SELECT * FROM inventario ORDER BY Producto; the result has the six
\* columns, so completar_columnas returns it as it is
cargar_datos_desde_db(tabla) == ORDER_BY_Producto(tabla)

\* the constraints of CREATE TABLE inventario, for one row to insert: ID is
\* the primary key (SQLite compares no NULL equal to another), Producto and
\* Categoría are NOT NULL, Cantidad and Precio pass their CHECK when they
\* are NULL or not negative
constraints_sin_pk(tabla, row) ==
    /\ ~isnull(row.Producto)
    /\ ~isnull(row.Categoria)
    /\ (isnull(row.Cantidad) \/ row.Cantidad.n >= 0)
    /\ (isnull(row.Precio) \/ row.Precio.n >= 0)

constraints(tabla, row) ==
    /\ isnull(row.ID) \/ \A i \in 1..Len(tabla) : tabla[i].ID # row.ID
    /\ ~isnull(row.Producto)
    /\ ~isnull(row.Categoria)
    /\ (isnull(row.Cantidad) \/ row.Cantidad.n >= 0)
    /\ (isnull(row.Precio) \/ row.Precio.n >= 0)

\* df.to_sql(if_exists="append"): the rows are inserted one after the other;
\* the first row that breaks a constraint raises IntegrityError and leaves
\* the rows before it inserted
RECURSIVE to_sql(_, _)
to_sql(tabla, rows) ==
    IF rows = <<>> THEN [error |-> FALSE, tabla |-> tabla]
    ELSE IF ~constraints(tabla, Head(rows)) THEN [error |-> TRUE, tabla |-> tabla]
    ELSE to_sql(Append(tabla, Head(rows)), Tail(rows))

\* with conn: DELETE FROM inventario; to_sql  -- without the rollback
transaccion_sin_rollback(tabla, rows) == to_sql(<<>>, rows)

\* with conn: DELETE FROM inventario; to_sql  -- commit when the block ends,
\* rollback of the DELETE and of every INSERT when it raises
transaccion(tabla, rows) ==
    LET r == to_sql(<<>>, rows)
    IN IF r.error THEN [error |-> TRUE, tabla |-> tabla] ELSE r

\* lines 97-98: the numeric columns after conversion
convertir(frame) ==
    [r \in 1..Len(frame) |->
        [frame[r] EXCEPT
            !.Cantidad = astype_int(fillna(to_numeric(frame[r].Cantidad), 0)),
            !.Precio = astype_float(fillna(to_numeric(frame[r].Precio), 0))]]

\* guardar_datos_en_db(df) on the table `tabla`: the value returned and the
\* table afterwards.  Every frame of the model has the six required
\* columns, so the check of line 91 passes.
guardar_datos_en_db(tabla, frame) ==
    IF frame = <<>> THEN [ret |-> "False", db |-> tabla]
    ELSE LET conv == convertir(frame)
         IN IF \E r \in 1..Len(conv) : conv[r].Cantidad.n < 0
                THEN [ret |-> "False", db |-> tabla]
            ELSE IF \E r \in 1..Len(conv) : conv[r].Precio.n < 0
                THEN [ret |-> "False", db |-> tabla]
            ELSE LET tx == transaccion(tabla, conv)
                 IN IF tx.error THEN [ret |-> "False", db |-> tx.tabla]
                    ELSE [ret |-> "True", db |-> tx.tabla]


-----------------------------------------------------------------------------
(* The import pipeline *)

\* f"{n:04d}"
Pad4(n) ==
    IF n < 10 THEN "000" \o ToString(n)
    ELSE IF n < 100 THEN "00" \o ToString(n)
    ELSE IF n < 1000 THEN "0" \o ToString(n)
    ELSE ToString(n)

\* f"PROD-{n:04d}"
FormatId(n) == "PROD-" \o Pad4(n)

\* lines 256-257
normalizar(file) ==
    completar_columnas(estandarizar_columnas([columns |-> file.columns, data |-> file.data]))

\* lines 269-271: when any ID is null, every row gets a new ID, counted from
\* the number of rows of the table plus one
generar_ids(tabla, frame) ==
    IF \E r \in 1..Len(frame) : isnull(frame[r].ID)
    THEN LET base_id == Len(cargar_datos_desde_db(tabla)) + 1
         IN [r \in 1..Len(frame) |->
                [frame[r] EXCEPT !.ID = Text(FormatId(base_id + (r - 1)))]]
    ELSE frame

\* the try block of cargar_archivo: pd.read_excel raises on bytes that are
\* no workbook; a workbook without data rows is refused
cargar_archivo_try(tabla, file) ==
    IF ~file.parse THEN [ret |-> "raise", db |-> tabla]
    ELSE IF file.data = <<>> THEN [ret |-> "False", db |-> tabla]
    ELSE LET nuevo_df == normalizar(file)
         IN IF \E r \in 1..Len(nuevo_df) : isnull(nuevo_df[r].Producto)
                THEN [ret |-> "False", db |-> tabla]
            ELSE IF \E r \in 1..Len(nuevo_df) : isnull(nuevo_df[r].Categoria)
                THEN [ret |-> "False", db |-> tabla]
            ELSE guardar_datos_en_db(tabla, generar_ids(tabla, nuevo_df))

\* cargar_archivo without its except clause
cargar_archivo_sin_except(tabla, file) == cargar_archivo_try(tabla, file)

\* cargar_archivo: except Exception returns False
cargar_archivo(tabla, file) ==
    LET r == cargar_archivo_try(tabla, file)
    IN IF r.ret = "raise" THEN [ret |-> "False", db |-> r.db] ELSE r

\* guardar_inventario_excel followed by pd.read_excel of the bytes: the
\* sheet has the columns of the frame as its header row; an empty text and
\* a missing value are both written as an empty cell, which reads as NaN
ExcelCell(c) == IF c = Text("") THEN NaN ELSE c

guardar_inventario_excel(frame) ==
    [parse |-> TRUE,
     columns |-> COLUMNAS_REQUERIDAS,
     data |-> [r \in 1..Len(frame) |->
                <<ExcelCell(frame[r].ID), ExcelCell(frame[r].Producto),
                  ExcelCell(frame[r].Categoria), ExcelCell(frame[r].Cantidad),
                  ExcelCell(frame[r].Precio), ExcelCell(frame[r].Ubicacion)>>]]


-----------------------------------------------------------------------------
(* The inputs of the model *)

SeqsUpTo(S, n) == UNION {[1..k -> S] : k \in 0..n}

\* the rows of the frames guardar_datos_en_db is called with.  The ID of a
\* row is a text at every call site: the import fills or generates it, the
\* form reads it from a text input and the editor keeps the loaded one.
FilasGuardar ==
    { Fila(Text("A1"), Text("Beta"), Text("Otros"), Num(Escala), Num(Escala + 1), Text("ALM-01")),
      Fila(Text("B2"), Text("Alfa"), Text("Otros"), Num(0), Num(0), NaN),
      Fila(Text("A1"), Text("Alfa"), Text("Otros"), Num(Escala + 1), Num(0), NaN),
      Fila(Text("B2"), Text("Alfa"), Text("Otros"), Num(-Escala), Num(0), NaN),
      Fila(Text("B2"), Text("Alfa"), Text("Otros"), Num(-1), Text("n/a"), NaN),
      Fila(Text("B2"), Text("Alfa"), Text("Otros"), Num(Escala), Num(-1), NaN),
      Fila(Text("B2"), NaN, Text("Otros"), Num(Escala), Num(0), NaN) }

Frames == SeqsUpTo(FilasGuardar, MaxRows)

\* the rows of the uploaded sheets, before they are cut to the columns of
\* the sheet: a blank cell reads as NaN, the text columns hold texts and the
\* numeric columns numbers
FilasArchivo ==
    { Fila(NaN, Text("Widget"), Text("Otros"), Num(3 * Escala), Num(2 * Escala + 1), NaN),
      Fila(NaN, Text("Widget"), Text("Otros"), Num(-3 * Escala), Num(2 * Escala + 1), NaN),
      Fila(Text("A1"), Text("Alfa"), Text("Otros"), Num(Escala), Num(0), Text("ALM-01")),
      Fila(Text("B2"), NaN, Text("Otros"), Num(Escala), Num(0), NaN),
      Fila(Text("B2"), Text("Beta"), NaN, Num(Escala), Num(0), NaN) }

\* the header rows of the uploaded sheets: each column with the field of
\* the row it shows
Col(label, campo) == [label |-> label, campo |-> campo]

Canonico ==
    <<Col(Str(cID), "ID"), Col(Str(cProducto), "Producto"),
      Col(Str(cCategoria), "Categoria"), Col(Str(cCantidad), "Cantidad"),
      Col(Str(cPrecio), "Precio"), Col(Str(cUbicacion), "Ubicacion")>>

Sinonimos ==
    <<Col(Str(<<" ","P","R","O","D","U","C","T","O"," ">>), "Producto"),
      Col(Str(kCategoria), "Categoria"),
      Col(Str(<<" ">> \o kCant), "Cantidad"),
      Col(Str(kPrecioUnitario), "Precio"),
      Col(Str(kLocacion \o <<" ">>), "Ubicacion")>>

ConNumero == Canonico \o <<Col(NumLabel, "Extra")>>

SinProducto ==
    <<Col(Str(cID), "ID"), Col(Str(cCantidad), "Cantidad"), Col(Str(cPrecio), "Precio")>>


Campo(row, campo) ==
    CASE campo = "ID" -> row.ID
      [] campo = "Producto" -> row.Producto
      [] campo = "Categoria" -> row.Categoria
      [] campo = "Cantidad" -> row.Cantidad
      [] campo = "Precio" -> row.Precio
      [] campo = "Ubicacion" -> row.Ubicacion
      [] OTHER -> Num(0)

Workbook(layout, rows) ==
    [parse |-> TRUE,
     columns |-> [j \in 1..Len(layout) |-> layout[j].label],
     data |-> [r \in 1..Len(rows) |->
                [j \in 1..Len(layout) |-> Campo(rows[r], layout[j].campo)]]]

\* bytes that are no workbook
NoWorkbook == [parse |-> FALSE, columns |-> <<>>, data |-> <<>>]

\* sheets of up to MaxRows rows under the canonical header row, with and
\* without a numeric header cell; sheets of one row under the other header
\* rows; and a file that is no workbook
Files ==
    {Workbook(l, rows) : l \in {Canonico, ConNumero},
                         rows \in SeqsUpTo(FilasArchivo, MaxRows)}
        \cup {Workbook(l, <<row>>) : l \in {Sinonimos, SinProducto}, row \in FilasArchivo}
        \cup {NoWorkbook}

\* what the operator enters in the form "Añadir nuevo producto"; the ID
\* field is preset to PROD-{len(df)+1:04d}
Forms(frame) ==
    [nuevo_id : {FormatId(Len(frame) + 1), "A1"},
     nuevo_nombre : {"", "Beta"},
     nueva_categoria : {"Otros"},
     nueva_cantidad : {Escala},
     nuevo_precio : {1},
     nueva_ubicacion : {"ALM-01"}]

RemoveAt(seq, i) == SubSeq(seq, 1, i - 1) \o SubSeq(seq, i + 1, Len(seq))

\* what the data editor returns: the frame with one cell edited or one row
\* deleted
Ediciones(frame) ==
    IF frame = <<>> THEN {}
    ELSE {[frame EXCEPT ![i].Producto = NaN] : i \in 1..Len(frame)}
            \cup {[frame EXCEPT ![1].Cantidad = Num(0)]}
            \cup {RemoveAt(frame, i) : i \in 1..Len(frame)}

-----------------------------------------------------------------------------
(* The page.  db is the table; df the frame of the page; op, arg and ret   *)
(* are the operation that ran last, its input and the value it returned,   *)
(* and pre the table when it started.                                      *)

\* inicializar_base_datos() creates the empty table
Init ==
    /\ db = <<>>
    /\ df = cargar_datos_desde_db(<<>>)
    /\ op = "idle"
    /\ arg = <<>>
    /\ ret = "None"
    /\ pre = <<>>

\* the script runs from its top (lines 291-292): the table is kept by
\* CREATE TABLE IF NOT EXISTS and the page loads its frame
Rerun ==
    /\ op # "idle"
    /\ db' = db
    /\ df' = cargar_datos_desde_db(db)
    /\ op' = "idle"
    /\ arg' = <<>>
    /\ ret' = "None"
    /\ pre' = db

\* a call guardar_datos_en_db(frame), followed as at every call site by
\* cargar_datos_desde_db() when it returned True
Guardar(frame) ==
    /\ op = "idle"
    /\ LET r == guardar_datos_en_db(db, frame)
       IN /\ db' = r.db
          /\ ret' = r.ret
          /\ df' = IF r.ret = "True" THEN cargar_datos_desde_db(r.db) ELSE df
    /\ op' = "guardar_datos_en_db"
    /\ arg' = frame
    /\ pre' = db

\* lines 303-306: a file is uploaded
SubirArchivo(file) ==
    /\ op = "idle"
    /\ LET r == cargar_archivo(db, file)
       IN /\ db' = r.db
          /\ ret' = r.ret
          /\ df' = IF r.ret = "True" THEN cargar_datos_desde_db(r.db) ELSE df
    /\ op' = "cargar_archivo"
    /\ arg' = file
    /\ pre' = db

\* "Descargar Excel" (lines 311-319), and the downloaded file uploaded again
ReimportarExcel ==
    /\ op = "idle"
    /\ df # <<>>
    /\ LET file == guardar_inventario_excel(df)
           r == cargar_archivo(db, file)
       IN /\ db' = r.db
          /\ ret' = r.ret
          /\ df' = IF r.ret = "True" THEN cargar_datos_desde_db(r.db) ELSE df
          /\ arg' = file
    /\ op' = "reimportar"
    /\ pre' = db

\* lines 382-393: "Guardar cambios" with the frame of the editor
GuardarCambios(edited_df) ==
    /\ op = "idle"
    /\ df # <<>>
    /\ IF \E i \in 1..Len(edited_df) : isnull(edited_df[i].Producto)
         THEN /\ ret' = "None"
              /\ UNCHANGED <<db, df>>
       ELSE IF \E i \in 1..Len(edited_df) : isnull(edited_df[i].Categoria)
         THEN /\ ret' = "None"
              /\ UNCHANGED <<db, df>>
       ELSE LET r == guardar_datos_en_db(db, edited_df)
            IN /\ db' = r.db
               /\ ret' = r.ret
               /\ df' = IF r.ret = "True" THEN cargar_datos_desde_db(r.db) ELSE df
    /\ op' = "guardar_cambios"
    /\ arg' = edited_df
    /\ pre' = db

\* lines 401-409: "Limpiar datos", confirmed
LimpiarDatos ==
    /\ op = "idle"
    /\ df # <<>>
    /\ LET r == guardar_datos_en_db(db, <<>>)
       IN /\ db' = r.db
          /\ ret' = r.ret
          /\ df' = cargar_datos_desde_db(r.db)
    /\ op' = "limpiar"
    /\ arg' = <<>>
    /\ pre' = db

\* lines 462-484: the form "Añadir nuevo producto" is submitted
AnadirProducto(form) ==
    /\ op = "idle"
    /\ Len(df) < MaxStore
    /\ IF form.nuevo_nombre = ""
         THEN /\ ret' = "None"
              /\ UNCHANGED <<db, df>>
       ELSE IF \E i \in 1..Len(df) : df[i].ID = Text(form.nuevo_id)
         THEN /\ ret' = "None"
              /\ UNCHANGED <<db, df>>
       ELSE LET nuevo_producto ==
                    Fila(Text(form.nuevo_id), Text(form.nuevo_nombre),
                         Text(form.nueva_categoria), Num(form.nueva_cantidad),
                         Num(form.nuevo_precio), Text(form.nueva_ubicacion))
                concat == Append(df, nuevo_producto)
                r == guardar_datos_en_db(db, concat)
            IN /\ db' = r.db
               /\ ret' = r.ret
               /\ df' = IF r.ret = "True" THEN cargar_datos_desde_db(r.db) ELSE concat
    /\ op' = "anadir"
    /\ arg' = form
    /\ pre' = db

Next ==
    \/ Rerun
    \/ \E frame \in Frames : Guardar(frame)
    \/ \E file \in Files : SubirArchivo(file)
    \/ ReimportarExcel
    \/ \E edited_df \in Ediciones(df) : GuardarCambios(edited_df)
    \/ LimpiarDatos
    \/ \E form \in Forms(df) : AnadirProducto(form)

Spec == Init /\ [][Next]_vars

-----------------------------------------------------------------------------
(* Predicates the properties are stated with *)

DistinctIds(rows) ==
    \A i, j \in 1..Len(rows) : i # j => rows[i].ID # rows[j].ID

DuplicateIds(rows) ==
    \E i, j \in 1..Len(rows) : i # j /\ rows[i].ID = rows[j].ID

NonNegative(c) == c.t = "num" /\ c.n >= 0

Negative(c) == c.t = "num" /\ c.n < 0

WholeNumber(c) == c.t = "num" /\ c.n % Escala = 0

EmptyOrNull(c) == isnull(c) \/ c = Text("")

SortedByProducto(rows) ==
    \A i, j \in 1..Len(rows) :
        i < j => SortKey(rows[i].Producto) <= SortKey(rows[j].Producto)

SameRecords(a, b) ==
    /\ Len(a) = Len(b)
    /\ {a[i] : i \in 1..Len(a)} = {b[i] : i \in 1..Len(b)}

-----------------------------------------------------------------------------
(* C1 *)

RoundTripCase ==
    /\ op = "guardar_datos_en_db"
    /\ arg # <<>>
    /\ DistinctIds(arg)
    /\ \A i \in 1..Len(arg) : NonNegative(arg[i].Cantidad) /\ NonNegative(arg[i].Precio)

RoundTripResult ==
    /\ ret = "True"
    /\ SameRecords(cargar_datos_desde_db(db), arg)
    /\ SortedByProducto(cargar_datos_desde_db(db))

\* C1 as claimed: guardar_datos_en_db on a non-empty frame with pairwise
\* distinct ids and non-negative Cantidad and Precio returns True, and
\* cargar_datos_desde_db then returns exactly the rows of the frame, sorted
\* by Producto, whatever the table held before.
C1_RoundTripAsClaimed == RoundTripCase => RoundTripResult

\* C1, amended: the same, for the frames whose Producto and Categoría are not
\* null and whose Cantidad is a whole number.
C1_RoundTrip ==
    (/\ RoundTripCase
     /\ \A i \in 1..Len(arg) :
            /\ ~isnull(arg[i].Producto)
            /\ ~isnull(arg[i].Categoria)
            /\ WholeNumber(arg[i].Cantidad))
        => RoundTripResult

\* two rows given in descending order of Producto replace a table that held
\* other rows
C1_Witness ==
    /\ RoundTripCase
    /\ Len(arg) = 2
    /\ \A i \in 1..Len(arg) : ~isnull(arg[i].Producto) /\ WholeNumber(arg[i].Cantidad)
    /\ ~SortedByProducto(arg)
    /\ pre # <<>>
    /\ ~SameRecords(pre, arg)
    /\ ret = "True"

-----------------------------------------------------------------------------
(* C2 *)

\* C2: guardar_datos_en_db on a frame in which two rows carry the same ID
\* returns False and leaves the table as it was before the call.
C2_DuplicateIdRejected ==
    (op = "guardar_datos_en_db" /\ DuplicateIds(arg))
        => (ret = "False" /\ db = pre)

\* the duplicate is the only fault of the frame, so the DELETE and the first
\* INSERT ran before the second INSERT failed, and the table held rows
C2_Witness ==
    /\ op = "guardar_datos_en_db"
    /\ DuplicateIds(arg)
    /\ \A i \in 1..Len(arg) :
            /\ ~isnull(arg[i].Producto)
            /\ NonNegative(arg[i].Cantidad)
            /\ NonNegative(arg[i].Precio)
    /\ pre # <<>>
    /\ ret = "False"

-----------------------------------------------------------------------------
(* C3 *)

\* C3: guardar_datos_en_db on a frame in which a Cantidad or a Precio is
\* negative returns False and leaves the table unchanged, and so does the
\* import of a sheet with such a row: no negative value is turned into a
\* value that is accepted.
C3_NegativeRejected ==
    /\ (op = "guardar_datos_en_db"
            /\ \E i \in 1..Len(arg) : Negative(arg[i].Cantidad) \/ Negative(arg[i].Precio))
        => (ret = "False" /\ db = pre)
    /\ (op = "cargar_archivo" /\ arg.parse
            /\ \E i \in 1..Len(arg.data) :
                    \/ Negative(normalizar(arg)[i].Cantidad)
                    \/ Negative(normalizar(arg)[i].Precio))
        => (ret = "False" /\ db = pre)

-----------------------------------------------------------------------------
(* C4 *)

\* C4: the import of a sheet that has a column "ID" whose cells are all
\* blank, with a product and a category in every row (and no negative
\* number), succeeds while the table holds k rows, and the i-th row of the
\* sheet is stored with the id PROD-(k+i), four digits wide.
C4_BlankIdsSynthesized ==
    (/\ op = "cargar_archivo"
     /\ arg.parse
     /\ arg.data # <<>>
     /\ HasColumn(arg, Str(cID))
     /\ HasColumn(arg, Str(cProducto))
     /\ HasColumn(arg, Str(cCategoria))
     /\ \A r \in 1..Len(arg.data) :
            /\ isnull(Column(arg, r, Str(cID), NaN))
            /\ ~EmptyOrNull(Column(arg, r, Str(cProducto), NaN))
            /\ ~EmptyOrNull(Column(arg, r, Str(cCategoria), NaN))
            /\ ~Negative(Column(arg, r, Str(cCantidad), NaN))
            /\ ~Negative(Column(arg, r, Str(cPrecio), NaN)))
        => (/\ ret = "True"
            /\ Len(db) = Len(arg.data)
            /\ \A i \in 1..Len(db) : db[i].ID = Text(FormatId(Len(pre) + i)))

-----------------------------------------------------------------------------
(* C5 *)

\* C5: after the confirmed "Limpiar datos" on a table that holds rows,
\* cargar_datos_desde_db returns no row.
C5_ClearEmptiesStore ==
    op = "limpiar" => cargar_datos_desde_db(db) = <<>>

-----------------------------------------------------------------------------
(* C6 *)

\* C6: the import returns False and leaves the table unchanged whenever,
\* after normalisation and completion of the columns, the Producto or the
\* Categoría of a row is empty or null.
C6_MissingFieldRejected ==
    (/\ op = "cargar_archivo"
     /\ arg.parse
     /\ \E i \in 1..Len(arg.data) :
            \/ EmptyOrNull(normalizar(arg)[i].Producto)
            \/ EmptyOrNull(normalizar(arg)[i].Categoria))
        => (ret = "False" /\ db = pre)

-----------------------------------------------------------------------------
(* C7 *)

\* C7: the sheet exported from the loaded frame, imported again, is accepted
\* and the table afterwards holds the same rows as before, ids included.
C7_ExportImportRoundTrip ==
    op = "reimportar" => (ret = "True" /\ SameRecords(db, pre))

-----------------------------------------------------------------------------
(* C8 *)

IsKey(chars) == \E i \in 1..Len(mapeo_columnas) : mapeo_columnas[i][1] = chars

ValueOf(chars) ==
    mapeo_columnas[CHOOSE i \in 1..Len(mapeo_columnas) : mapeo_columnas[i][1] = chars][2]

IsCanonical(chars) ==
    \E i \in 1..Len(COLUMNAS_REQUERIDAS) : COLUMNAS_REQUERIDAS[i].chars = chars

\* C8: estandarizar_columnas gives every header that is, surrounding blanks
\* apart, a key of mapeo_columnas the canonical name the table maps it to,
\* and leaves each of the six canonical headers under its own name.
C8_NormalizerMapsHeaders ==
    (/\ op = "cargar_archivo"
     /\ arg.parse
     /\ \A j \in 1..Len(arg.columns) : arg.columns[j].str)
        => \A j \in 1..Len(arg.columns) :
            LET h == strip(arg.columns[j].chars)
                n == estandarizar_columnas(
                        [columns |-> arg.columns, data |-> arg.data]).columns[j]
            IN /\ IsKey(h) => n = Str(ValueOf(h))
               /\ IsCanonical(h) => n = Str(h)

-----------------------------------------------------------------------------
(* C9 *)

\* C9: in every state no two rows of the table have the same ID, and every
\* row has Cantidad >= 0 and Precio >= 0.
C9_StoreInvariant ==
    /\ DistinctIds(db)
    /\ \A i \in 1..Len(db) : NonNegative(db[i].Cantidad) /\ NonNegative(db[i].Precio)

\* a table of two rows that has just refused a frame with a repeated id
C9_Witness ==
    /\ Len(db) = 2
    /\ op = "guardar_datos_en_db"
    /\ DuplicateIds(arg)
    /\ \A i \in 1..Len(arg) : ~Negative(arg[i].Cantidad) /\ ~Negative(arg[i].Precio)
    /\ ret = "False"

-----------------------------------------------------------------------------
(* C10 *)

\* C10: an import never ends with an exception, and when it returns False
\* the table is the one it started with.
C10_NoPartialImport ==
    op \in {"cargar_archivo", "reimportar"}
        => (ret \in {"True", "False"} /\ (ret = "False" => db = pre))

\* an import that fails in the transaction, after the DELETE and the first
\* INSERT: two rows that pass every check of the pipeline and get the same ID
C10_Witness ==
    /\ op = "cargar_archivo"
    /\ arg.parse
    /\ Len(arg.data) = 2
    /\ \A i \in 1..Len(arg.data) :
            /\ ~isnull(normalizar(arg)[i].Producto)
            /\ ~isnull(normalizar(arg)[i].Categoria)
            /\ ~Negative(normalizar(arg)[i].Cantidad)
            /\ ~Negative(normalizar(arg)[i].Precio)
    /\ pre # <<>>
    /\ ret = "False"
    /\ db = pre

-----------------------------------------------------------------------------
(* C11 *)

\* the number of rows up to row i whose ID is null
NullIdsUpTo(frame, i) == Cardinality({j \in 1..i : isnull(frame[j].ID)})

\* C11: in an import where, after normalisation, some rows have a null ID
\* and the others a non-empty one, a row that has an ID keeps it, and the
\* rows without one get PROD-(k+1), PROD-(k+2), ... in their order, k being
\* the number of rows of the table: the counter advances once per generated
\* ID, not once per row of the sheet.
C11_OnlyMissingIdsSynthesized ==
    (/\ op = "cargar_archivo"
     /\ arg.parse
     /\ \E i \in 1..Len(arg.data) : isnull(normalizar(arg)[i].ID)
     /\ \E i \in 1..Len(arg.data) : ~EmptyOrNull(normalizar(arg)[i].ID)
     /\ \A i \in 1..Len(arg.data) :
            /\ normalizar(arg)[i].ID # Text("")
            /\ ~isnull(normalizar(arg)[i].Producto)
            /\ ~isnull(normalizar(arg)[i].Categoria)
            /\ ~Negative(normalizar(arg)[i].Cantidad)
            /\ ~Negative(normalizar(arg)[i].Precio)
     /\ \A i, j \in 1..Len(arg.data) :
            (i # j /\ ~isnull(normalizar(arg)[i].ID))
                => normalizar(arg)[i].ID # normalizar(arg)[j].ID)
        => (/\ ret = "True"
            /\ Len(db) = Len(arg.data)
            /\ \A i \in 1..Len(db) :
                    db[i].ID =
                        IF isnull(normalizar(arg)[i].ID)
                        THEN Text(FormatId(Len(pre) + NullIdsUpTo(normalizar(arg), i)))
                        ELSE normalizar(arg)[i].ID)

====
